---- MODULE Spec2Model ----
(***************************************************************************)
(* Model of the sup-chat channel plugin (src/index.ts): the gateway's      *)
(* start/stop lifecycle, the polling loop that turns fetched chat-panel    *)
(* snapshots into "message" events, deduplicated by a per-loop set of seen *)
(* message ids, and the outbound sendText.                                 *)
(*                                                                         *)
(* JavaScript runs handlers to completion between awaits, so every action  *)
(* below is one such run: from a call, a timer firing or a resumed await   *)
(* up to the next await or the return.                                     *)
(***************************************************************************)
EXTENDS Integers, Sequences, FiniteSets, TLC

\* ---- bounds of the model ------------------------------------------------
MaxStarts == 2      \* calls of gateway.start
MaxStops  == 2      \* calls of gateway.stop
MaxTicks  == 1      \* firings of the interval timers, over all loops
MaxChats  == 1      \* chats in one snapshot
MaxMsgs   == 2      \* messages in one chat
MaxSends  == 1      \* calls of outbound.sendText

\* ---- input domains ------------------------------------------------------
Ids       == {"m1", "m2"}            \* message ids of the remote service
NoId      == "none"
botUserId == "bot"                   \* api.config.botUserId
ChatTypes == {"direct", "group"}

\* msg.mentions is optional: hasMentions = FALSE is the absent field.
Mentions == { [hasMentions |-> FALSE, users |-> {}],
              [hasMentions |-> TRUE,  users |-> {"u1"}],
              [hasMentions |-> TRUE,  users |-> {"bot", "u1"}] }

NoMentions == { m \in Mentions : ~m.hasMentions }

\* An entry of chat.messages: a message object, or null.
MessagesOver(ids, mentions) == [isNull : {FALSE}, id : ids, mentions : mentions]

NullMessage == [isNull |-> TRUE, id |-> NoId, mentions |-> [hasMentions |-> FALSE, users |-> {}]]

SeqsFromTo(S, lo, hi) == UNION { [1..k -> S] : k \in lo..hi }

\* chat.messages without entries: absent (falsy), a truthy value that cannot
\* be iterated, or an empty list.
NoMessages(kind) == [kind |-> kind, list |-> <<>>]

\* The chats whose messages are lists of at most nMsgs of the given entries.
\* The type of a chat without messages is never read; such chats are listed
\* with one type only.
ChatsOver(entries, nMsgs) ==
    { [type |-> "group", messages |-> NoMessages(k)] : k \in {"absent", "noniterable", "list"} }
    \cup [ type     : ChatTypes,
           messages : { [kind |-> "list", list |-> l] : l \in SeqsFromTo(entries, 1, nMsgs) } ]

\* The decoded body: hasChats = FALSE is any body where
\* data?.result?.data?.chats is missing or falsy.
SnapshotsOver(entries, nChats, nMsgs) ==
    { [hasChats |-> FALSE, chats |-> <<>>] }
    \cup { [hasChats |-> TRUE, chats |-> cs] :
             cs \in SeqsFromTo(ChatsOver(entries, nMsgs), 0, nChats) }

\* Snapshots over two ids, for the claims about deduplication: a message is
\* relevant iff its chat is direct.
Snapshots == SnapshotsOver(MessagesOver(Ids, NoMentions), MaxChats, MaxMsgs)

\* Snapshots whose chats hold one message, with every kind of mention list,
\* for the claim about the relevance filter.
FilterSnapshots == SnapshotsOver(MessagesOver(Ids, Mentions), MaxChats, 1)

\* Snapshots of one chat whose message list may hold null, for the claim about
\* failures during the walk.
MalformedSnapshots ==
    SnapshotsOver(MessagesOver(Ids, NoMentions) \cup {NullMessage}, 1, MaxMsgs)

\* Snapshots of several chats with one message each, or of one chat with
\* several messages, for the claim about the order of emission.
OrderSnapshots ==
    SnapshotsOver(MessagesOver(Ids, NoMentions), MaxChats, 1)
    \cup SnapshotsOver(MessagesOver(Ids, NoMentions), 1, MaxMsgs)

\* The snapshot that holds one new message of a direct chat.
NewId == "m1"

NewMessageSnapshot ==
    [ hasChats |-> TRUE,
      chats    |-> << [ type     |-> "direct",
                        messages |-> [ kind |-> "list",
                                       list |-> << [ isNull |-> FALSE, id |-> NewId,
                                                     mentions |-> [hasMentions |-> FALSE, users |-> {}] ] >> ] ] >> ]

\* The ids of the messages of a chat.
IdsOf(chat) == { chat.messages.list[i].id : i \in 1..Len(chat.messages.list) }

\* The snapshots, some of them malformed, in which that message is yet to
\* come, and the one that brings it.
RecoverySnapshots ==
    { s \in MalformedSnapshots : \A i \in 1..Len(s.chats) : NewId \notin IdsOf(s.chats[i]) }
    \cup {NewMessageSnapshot}

\* Snapshots without messages, for the claims about start, stop and the
\* timer, where the content of a snapshot plays no part.
EmptySnapshots == SnapshotsOver({}, 1, 1)

\* api.config.channels["sup-chat"]: missing, or present with enabled
\* missing, false or true.
ConfigStates == {"noconfig", "enabledAbsent", "enabledFalse", "enabledTrue"}

\* The file at authSessionPath: missing, blank, or holding a token.
CredStates == {"missing", "blank", "tok1"}

\* What the file can hold once it has been rewritten while the plugin runs.
RotatedCreds == CredStates \cup {"tok2"}

VARIABLES
    config,     \* the channel configuration
    credFile,   \* content of the credential file
    loops,      \* one record per closure created by a start that got past the credential load
    context,    \* api.context["sup-chat-poll-interval"]: 0, or the loop whose interval handle is stored
    cycles,     \* the invocations of poll that await their fetch, oldest first
    ended,      \* how the invocation of poll that ended last ended
    ticks,      \* number of timer firings
    events,     \* what api.emit("message", ...) has delivered, in order
    startLog,   \* outcome of each start call, in order
    stopCalls,  \* number of stop calls
    clears,     \* interval handles passed to clearInterval, in order
    calls,      \* how often loadAuthSession, the snapshot request and the create request ran
    sends       \* one record per sendText call, in order

vars == <<config, credFile, loops, context, cycles, ended, ticks, events, startLog, stopCalls, clears,
          calls, sends>>

\* ---- pure parts of the poll body ------------------------------------------

\* line 231: seenMessageIds.has(msg.id)
\* (AlreadySeen_never: the walk without this test; AlreadySeen_mentionPasses:
\* a test that lets a seen message through once it mentions the bot.)
AlreadySeen_never(seen, msg) == FALSE
AlreadySeen_mentionPasses(seen, msg) ==
    msg.id \in seen /\ ~(msg.mentions.hasMentions /\ botUserId \in msg.mentions.users)
AlreadySeen(seen, msg) == msg.id \in seen

\* line 232: seenMessageIds.add(msg.id)
\* (MarkSeen_dropped: the walk without this add.)
MarkSeen_dropped(seen, msg) == seen
MarkSeen(seen, msg) == seen \cup {msg.id}

\* line 235: chat.type === "direct"
IsDM(chat) == chat.type = "direct"

\* line 236: msg.mentions?.includes(api.config.botUserId)
HasMention(msg) == msg.mentions.hasMentions /\ botUserId \in msg.mentions.users

\* line 238: isDM || hasMention
\* (IsRelevant_all: the walk without this filter.)
IsRelevant_all(chat, msg) == TRUE
IsRelevant(chat, msg) == IsDM(chat) \/ HasMention(msg)

\* lines 240-248: the event handed to api.emit. loop and chatType are
\* bookkeeping of the model (who emitted it, and from which kind of chat).
MakeEvent(l, chat, msg) ==
    [ messageId |-> msg.id,
      isDM      |-> IsDM(chat),
      mentions  |-> msg.mentions,
      loop      |-> l,
      chatType  |-> chat.type ]

\* The walk's state: the seen set, the events emitted so far in this cycle and
\* whether an exception has ended the walk. Four more fields are bookkeeping
\* of the model: before, the seen set as the cycle found it; reseen, the ids
\* met in a snapshot after an earlier cycle had put them in the seen set;
\* firstRel, the ids that passed the relevance test when they were first met;
\* and late, the ids that would have passed it when they were met again but
\* had not passed it when they were first met.
WalkState(seen, reseen, firstRel, late) ==
    [ seen |-> seen, out |-> <<>>, threw |-> FALSE,
      before |-> seen, reseen |-> reseen, firstRel |-> firstRel, late |-> late ]

NoteMet(st, chat, msg) ==
    IF msg.id \in st.before
    THEN [st EXCEPT !.reseen = @ \cup {msg.id},
                    !.late = IF msg.id \notin st.firstRel /\ IsRelevant(chat, msg)
                             THEN @ \cup {msg.id} ELSE @]
    ELSE st

\* lines 230-251: the inner loop. Reading msg.id of a null entry raises a
\* TypeError; raiseOn is the message id for which api.emit raises (NoId: it
\* never does).
RECURSIVE WalkMessages(_, _, _, _, _)
WalkMessages(l, chat, msgs, st, raiseOn) ==
    IF msgs = <<>> \/ st.threw THEN st
    ELSE LET msg == Head(msgs)
             st0 == NoteMet(st, chat, msg)
         IN
         IF msg.isNull
         THEN [st EXCEPT !.threw = TRUE]
         ELSE IF AlreadySeen(st0.seen, msg)
         THEN WalkMessages(l, chat, Tail(msgs), st0, raiseOn)
         ELSE LET st1 == [st0 EXCEPT !.seen = MarkSeen(@, msg)] IN
              IF IsRelevant(chat, msg)
              THEN LET st2 == [st1 EXCEPT !.firstRel = @ \cup {msg.id}] IN
                   IF msg.id = raiseOn
                   THEN [st2 EXCEPT !.threw = TRUE]
                   ELSE WalkMessages(l, chat, Tail(msgs),
                            [st2 EXCEPT !.out = Append(@, MakeEvent(l, chat, msg))],
                            raiseOn)
              ELSE WalkMessages(l, chat, Tail(msgs), st1, raiseOn)

\* lines 228-253: the outer loop. A truthy chat.messages that is not
\* iterable makes for..of raise a TypeError.
RECURSIVE WalkChats(_, _, _, _)
WalkChats(l, chats, st, raiseOn) ==
    IF chats = <<>> \/ st.threw THEN st
    ELSE LET chat == Head(chats) IN
         CASE chat.messages.kind = "absent" ->
                  WalkChats(l, Tail(chats), st, raiseOn)
           [] chat.messages.kind = "noniterable" ->
                  [st EXCEPT !.threw = TRUE]
           [] OTHER ->
                  WalkChats(l, Tail(chats),
                            WalkMessages(l, chat, chat.messages.list, st, raiseOn),
                            raiseOn)

\* lines 227-254: what one successfully fetched snapshot does to the seen set
\* and the sink.
ProcessSnapshot(l, snap, st, raiseOn) ==
    IF snap.hasChats THEN WalkChats(l, snap.chats, st, raiseOn) ELSE st

\* lines 35-41: loadAuthSession succeeds iff the file exists and is not blank.
CredLoads(file) == file \notin {"missing", "blank"}

\* ---- initial state ---------------------------------------------------------
Init ==
    /\ config \in ConfigStates
    /\ credFile \in CredStates
    /\ loops = <<>>
    /\ context = 0
    /\ cycles = <<>>
    /\ ended = "none"
    /\ ticks = 0
    /\ events = <<>>
    /\ startLog = <<>>
    /\ stopCalls = 0
    /\ clears = <<>>
    /\ calls = [load |-> 0, fetch |-> 0, create |-> 0]
    /\ sends = <<>>

\* ---- helpers over the state -------------------------------------------------
LoopIds  == 1..Len(loops)
CycleIds == 1..Len(cycles)

\* The invocations of poll of loop l that await their fetch.
InFlight(l) == { c \in CycleIds : cycles[c].loop = l }

\* The invocation made by "await poll()" of the start call that created loop
\* l still awaits its fetch.
InitialInFlight(l) == \E c \in InFlight(l) : cycles[c].kind = "initial"

RemoveAt(s, i) == SubSeq(s, 1, i - 1) \o SubSeq(s, i + 1, Len(s))

\* lines 220-222: poll() runs up to "await fetchChatPanelData(...)", which
\* issues the request with the token captured by the closure. afterStop is
\* bookkeeping of the model: stop had been called on this loop when the
\* invocation began.
NewCycle(l, kind, token, afterStop) ==
    [ loop |-> l, kind |-> kind, token |-> token, afterStop |-> afterStop ]

\* lines 213-217 and 261: the closure of one start: the token, the empty seen
\* set and the armed timer. stopRequested, reseen, firstRel and late are
\* bookkeeping.
NewLoop(token, pc) ==
    [ token         |-> token,
      seen          |-> {},
      timerArmed    |-> TRUE,
      startPc       |-> pc,
      stopRequested |-> FALSE,
      reseen        |-> {},
      firstRel      |-> {},
      late          |-> {} ]

\* ---- gateway.start ---------------------------------------------------------

\* lines 204-208: no configuration, or enabled missing or false.
\* (StartDisabled_absentOn: a start that takes a missing flag for true.)
StartDisabled_absentOn ==
    /\ Len(startLog) < MaxStarts
    /\ config # "enabledTrue"
    /\ IF config = "enabledAbsent" /\ CredLoads(credFile)
       THEN /\ loops' = Append(loops, NewLoop(credFile, "awaitPoll"))
            /\ cycles' = Append(cycles, NewCycle(Len(loops) + 1, "initial", credFile, FALSE))
            /\ startLog' = Append(startLog, "started")
            /\ calls' = [calls EXCEPT !.load = @ + 1, !.fetch = @ + 1]
       ELSE /\ startLog' = Append(startLog, "skipped")
            /\ UNCHANGED <<loops, cycles, calls>>
    /\ UNCHANGED <<config, credFile, context, ended, ticks, events, stopCalls, clears, sends>>
StartDisabled ==
    /\ Len(startLog) < MaxStarts
    /\ config # "enabledTrue"
    /\ startLog' = Append(startLog, "skipped")
    /\ UNCHANGED <<config, credFile, loops, context, cycles, ended, ticks, events, stopCalls, clears, calls, sends>>

\* lines 212-213, 270-272: loadAuthSession throws; the catch logs and rethrows.
\* (StartCredFail_armsFirst: a start that creates its loop before loading.)
StartCredFail_armsFirst ==
    /\ Len(startLog) < MaxStarts
    /\ config = "enabledTrue"
    /\ ~CredLoads(credFile)
    /\ startLog' = Append(startLog, "threw")
    /\ loops' = Append(loops, NewLoop(credFile, "done"))
    /\ calls' = [calls EXCEPT !.load = @ + 1]
    /\ UNCHANGED <<config, credFile, context, cycles, ended, ticks, events, stopCalls, clears, sends>>
StartCredFail ==
    /\ Len(startLog) < MaxStarts
    /\ config = "enabledTrue"
    /\ ~CredLoads(credFile)
    /\ startLog' = Append(startLog, "threw")
    /\ calls' = [calls EXCEPT !.load = @ + 1]
    /\ UNCHANGED <<config, credFile, loops, context, cycles, ended, ticks, events, stopCalls, clears, sends>>

\* lines 213-264: the credential loads; a fresh seen set and poll closure are
\* created, setInterval arms the timer, and poll() is called and runs up to
\* its await. start itself now waits for that promise.
StartOk ==
    /\ Len(startLog) < MaxStarts
    /\ config = "enabledTrue"
    /\ CredLoads(credFile)
    /\ loops' = Append(loops, NewLoop(credFile, "awaitPoll"))
    /\ cycles' = Append(cycles, NewCycle(Len(loops) + 1, "initial", credFile, FALSE))
    /\ startLog' = Append(startLog, "started")
    /\ calls' = [calls EXCEPT !.load = @ + 1, !.fetch = @ + 1]
    /\ UNCHANGED <<config, credFile, context, ended, ticks, events, stopCalls, clears, sends>>

\* lines 264-269: the initial poll's promise has resolved (poll catches all
\* its errors, so it never rejects); start stores the handle and returns.
StartResume(l) ==
    /\ loops[l].startPc = "awaitPoll"
    /\ ~InitialInFlight(l)
    /\ context' = l
    /\ loops' = [loops EXCEPT ![l].startPc = "done"]
    /\ UNCHANGED <<config, credFile, cycles, ended, ticks, events, startLog, stopCalls, clears, calls, sends>>

\* ---- the timer and the poll body ---------------------------------------------

\* line 261: a firing of the interval timer calls poll(), whatever earlier
\* invocations are doing; poll runs up to its await.
\* (TimerFire_reloads: a poll that reads the credential file again.)
TimerFire_reloads(l) ==
    /\ loops[l].timerArmed
    /\ ticks < MaxTicks
    /\ ticks' = ticks + 1
    /\ cycles' = Append(cycles, NewCycle(l, "timer", credFile, loops[l].stopRequested))
    /\ calls' = [calls EXCEPT !.fetch = @ + 1]
    /\ UNCHANGED <<config, credFile, loops, context, ended, events, startLog, stopCalls, clears, sends>>
TimerFire(l) ==
    /\ loops[l].timerArmed
    /\ ticks < MaxTicks
    /\ ticks' = ticks + 1
    /\ cycles' = Append(cycles, NewCycle(l, "timer", loops[l].token, loops[l].stopRequested))
    /\ calls' = [calls EXCEPT !.fetch = @ + 1]
    /\ UNCHANGED <<config, credFile, loops, context, ended, events, startLog, stopCalls, clears, sends>>

\* line 261 again, for behaviours without end: the timer fires on and on. The
\* counters of firings and of requests stop at MaxTicks, and at most
\* MaxTicks + 1 invocations of a loop await their fetch at a time.
TimerFireOn(l) ==
    /\ loops[l].timerArmed
    /\ Cardinality(InFlight(l)) <= MaxTicks
    /\ ticks' = IF ticks < MaxTicks THEN ticks + 1 ELSE ticks
    /\ cycles' = Append(cycles, NewCycle(l, "timer", loops[l].token, loops[l].stopRequested))
    /\ calls' = IF ticks < MaxTicks THEN [calls EXCEPT !.fetch = @ + 1] ELSE calls
    /\ UNCHANGED <<config, credFile, loops, context, ended, events, startLog, stopCalls, clears, sends>>

\* lines 66-75 and 255-257: the request fails (fetch rejects, the status is not
\* ok, or the body is not JSON), so the awaited promise rejects and the catch
\* of poll logs it.
\* (PollFetchFail_clearsSeen: a catch that also resets the seen set;
\* PollFetchFail_stopsTimer: a catch that also cancels the timer;
\* PollFetchFail_retries: a failed request that is issued again at once.)
PollFetchFail_retries(c) ==
    /\ calls.fetch <= MaxStarts + MaxTicks
    /\ ended' = "fetch"
    /\ calls' = [calls EXCEPT !.fetch = @ + 1]
    /\ UNCHANGED <<config, credFile, loops, context, cycles, ticks, events, startLog, stopCalls, clears, sends>>
PollFetchFail_stopsTimer(c) ==
    /\ cycles' = RemoveAt(cycles, c)
    /\ ended' = "fetch"
    /\ loops' = [loops EXCEPT ![cycles[c].loop].timerArmed = FALSE]
    /\ UNCHANGED <<config, credFile, context, ticks, events, startLog, stopCalls, clears, calls, sends>>
PollFetchFail_clearsSeen(c) ==
    /\ cycles' = RemoveAt(cycles, c)
    /\ ended' = "fetch"
    /\ loops' = [loops EXCEPT ![cycles[c].loop].seen = {}]
    /\ UNCHANGED <<config, credFile, context, ticks, events, startLog, stopCalls, clears, calls, sends>>
PollFetchFail(c) ==
    /\ cycles' = RemoveAt(cycles, c)
    /\ ended' = "fetch"
    /\ UNCHANGED <<config, credFile, loops, context, ticks, events, startLog, stopCalls, clears, calls, sends>>

\* lines 222-257: the request succeeds and poll walks the snapshot, without
\* awaiting anything, to its end or to the first exception, which the catch logs.
\* (PollProcess_newestFirst: a poll that hands its events over last first.)
PollProcess_newestFirst(c, snap, raiseOn) ==
    /\ LET l == cycles[c].loop
           r == ProcessSnapshot(l, snap,
                                WalkState(loops[l].seen, loops[l].reseen, loops[l].firstRel,
                                          loops[l].late),
                                raiseOn)
       IN /\ loops' = [loops EXCEPT ![l].seen = r.seen,
                                    ![l].reseen = r.reseen,
                                    ![l].firstRel = r.firstRel,
                                    ![l].late = r.late]
          /\ events' = events \o [i \in 1..Len(r.out) |-> r.out[Len(r.out) + 1 - i]]
          /\ ended' = IF r.threw THEN "walk" ELSE "done"
    /\ cycles' = RemoveAt(cycles, c)
    /\ UNCHANGED <<config, credFile, context, ticks, startLog, stopCalls, clears, calls, sends>>
PollProcess(c, snap, raiseOn) ==
    /\ LET l == cycles[c].loop
           r == ProcessSnapshot(l, snap,
                                WalkState(loops[l].seen, loops[l].reseen, loops[l].firstRel,
                                          loops[l].late),
                                raiseOn)
       IN /\ loops' = [loops EXCEPT ![l].seen = r.seen,
                                    ![l].reseen = r.reseen,
                                    ![l].firstRel = r.firstRel,
                                    ![l].late = r.late]
          /\ events' = events \o r.out
          /\ ended' = IF r.threw THEN "walk" ELSE "done"
    /\ cycles' = RemoveAt(cycles, c)
    /\ UNCHANGED <<config, credFile, context, ticks, startLog, stopCalls, clears, calls, sends>>

\* ---- gateway.stop ------------------------------------------------------------

\* stopRequested is bookkeeping of the model: stop has been called since the
\* loop was created.
RequestStop(ls) == [l \in 1..Len(ls) |-> [ls[l] EXCEPT !.stopRequested = TRUE]]

\* lines 275-282
\* (Stop_keepsHandle: a stop that omits the delete of line 279.)
Stop_keepsHandle ==
    /\ stopCalls < MaxStops
    /\ stopCalls' = stopCalls + 1
    /\ IF context # 0
       THEN /\ loops' = RequestStop([loops EXCEPT ![context].timerArmed = FALSE])
            /\ clears' = Append(clears, context)
            /\ context' = context
       ELSE /\ loops' = RequestStop(loops)
            /\ UNCHANGED <<context, clears>>
    /\ UNCHANGED <<config, credFile, cycles, ended, ticks, events, startLog, calls, sends>>
Stop ==
    /\ stopCalls < MaxStops
    /\ stopCalls' = stopCalls + 1
    /\ IF context # 0
       THEN /\ loops' = RequestStop([loops EXCEPT ![context].timerArmed = FALSE])
            /\ clears' = Append(clears, context)
            /\ context' = 0
       ELSE /\ loops' = RequestStop(loops)
            /\ UNCHANGED <<context, clears>>
    /\ UNCHANGED <<config, credFile, cycles, ended, ticks, events, startLog, calls, sends>>

\* ---- the environment --------------------------------------------------------

\* lines 35-38 read the file at authSessionPath; something outside the plugin
\* rewrites or removes it.
CredWrite(v) ==
    /\ v # credFile
    /\ credFile' = v
    /\ UNCHANGED <<config, loops, context, cycles, ended, ticks, events, startLog, stopCalls, clears, calls, sends>>

\* ---- outbound.sendText --------------------------------------------------------

\* What became of the create request: not answered yet, answered with a 2xx
\* status and a JSON body, answered with a 2xx status and a body that is not
\* JSON, or failed (fetch rejects or the status is not ok).
Responses == {"none", "ok", "badBody", "failed"}

\* One sendText call: where it is, what it returned ("raised": it threw to its
\* caller), how many create requests it issued, and what the remote service
\* did: the answer, and the id it gave the message if it created one.
SendCall(pc, result, requests) ==
    [ pc |-> pc, result |-> result, requests |-> requests,
      response |-> "none", created |-> NoId ]

\* The ids of the messages that sendText calls have created remotely.
Sent == { sends[i].created : i \in 1..Len(sends) } \ {NoId}

\* lines 186-189: api.config.channels["sup-chat"] is missing.
SendNoConfig ==
    /\ Len(sends) < MaxSends
    /\ config = "noconfig"
    /\ sends' = Append(sends, SendCall("returned", "fail", 0))
    /\ UNCHANGED <<config, credFile, loops, context, cycles, ended, ticks, events, startLog, stopCalls, clears, calls>>

\* lines 191, 196-198: loadAuthSession throws; the catch returns the failure.
\* (SendCredFail_rethrows: a catch that throws the error on.)
SendCredFail_rethrows ==
    /\ Len(sends) < MaxSends
    /\ config # "noconfig"
    /\ ~CredLoads(credFile)
    /\ calls' = [calls EXCEPT !.load = @ + 1]
    /\ sends' = Append(sends, SendCall("returned", "raised", 0))
    /\ UNCHANGED <<config, credFile, loops, context, cycles, ended, ticks, events, startLog, stopCalls, clears>>
SendCredFail ==
    /\ Len(sends) < MaxSends
    /\ config # "noconfig"
    /\ ~CredLoads(credFile)
    /\ calls' = [calls EXCEPT !.load = @ + 1]
    /\ sends' = Append(sends, SendCall("returned", "fail", 0))
    /\ UNCHANGED <<config, credFile, loops, context, cycles, ended, ticks, events, startLog, stopCalls, clears>>

\* lines 191-192, 121-124, 66: the credential loads, and sendChatMessage
\* issues the create request and awaits its answer. The enabled flag is not
\* read.
SendIssue ==
    /\ Len(sends) < MaxSends
    /\ config # "noconfig"
    /\ CredLoads(credFile)
    /\ calls' = [calls EXCEPT !.load = @ + 1, !.create = @ + 1]
    /\ sends' = Append(sends, SendCall("awaitCreate", "none", 1))
    /\ UNCHANGED <<config, credFile, loops, context, cycles, ended, ticks, events, startLog, stopCalls, clears>>

\* lines 66-75, 192-198: the request is answered. Only a 2xx answer with a
\* JSON body lets sendText return ok; every other answer throws into the catch.
\* The remote service created the message iff it answered 2xx, and gave it an
\* id no other message has.
\* (SendResolve_marksSeen: a send that records its own message as seen.)
SendResolve_marksSeen(i, response, m) ==
    /\ sends[i].pc = "awaitCreate"
    /\ response \in Responses \ {"none"}
    /\ m \in IF response = "failed" THEN {NoId} ELSE Ids \ Sent
    /\ sends' = [sends EXCEPT ![i] = [@ EXCEPT !.pc = "returned",
                                               !.result = IF response = "ok" THEN "ok" ELSE "fail",
                                               !.response = response,
                                               !.created = m]]
    /\ loops' = [l \in LoopIds |-> [loops[l] EXCEPT !.seen = @ \cup ({m} \ {NoId})]]
    /\ UNCHANGED <<config, credFile, context, cycles, ended, ticks, events, startLog, stopCalls, clears, calls>>
SendResolve(i, response, m) ==
    /\ sends[i].pc = "awaitCreate"
    /\ response \in Responses \ {"none"}
    /\ m \in IF response = "failed" THEN {NoId} ELSE Ids \ Sent
    /\ sends' = [sends EXCEPT ![i] = [@ EXCEPT !.pc = "returned",
                                               !.result = IF response = "ok" THEN "ok" ELSE "fail",
                                               !.response = response,
                                               !.created = m]]
    /\ UNCHANGED <<config, credFile, loops, context, cycles, ended, ticks, events, startLog, stopCalls, clears, calls>>

\* ---- specifications ----------------------------------------------------------

\* The gateway with its whole lifecycle; the snapshots hold no messages.
Next ==
    \/ StartDisabled
    \/ StartCredFail
    \/ StartOk
    \/ \E l \in LoopIds : StartResume(l)
    \/ \E l \in LoopIds : TimerFire(l)
    \/ \E c \in CycleIds : PollFetchFail(c)
    \/ \E c \in CycleIds, snap \in EmptySnapshots : PollProcess(c, snap, NoId)
    \/ Stop

Spec == Init /\ [][Next]_vars

\* One loop, started once and never stopped, fed every snapshot of Snapshots.
InitPoll == Init /\ config = "enabledTrue" /\ credFile = "tok1"

NextPoll ==
    \/ (loops = <<>> /\ StartOk)
    \/ \E l \in LoopIds : StartResume(l)
    \/ \E l \in LoopIds : TimerFire(l)
    \/ \E c \in CycleIds : PollFetchFail(c)
    \/ \E c \in CycleIds, snap \in Snapshots : PollProcess(c, snap, NoId)

SpecPoll == InitPoll /\ [][NextPoll]_vars

\* The same loop fed every snapshot of FilterSnapshots.
NextFilter ==
    \/ (loops = <<>> /\ StartOk)
    \/ \E l \in LoopIds : StartResume(l)
    \/ \E l \in LoopIds : TimerFire(l)
    \/ \E c \in CycleIds : PollFetchFail(c)
    \/ \E c \in CycleIds, snap \in FilterSnapshots : PollProcess(c, snap, NoId)

SpecFilter == InitPoll /\ [][NextFilter]_vars

\* The same loop fed every snapshot of MalformedSnapshots; the Event Sink may
\* raise.
NextMalformed ==
    \/ (loops = <<>> /\ StartOk)
    \/ \E l \in LoopIds : StartResume(l)
    \/ \E l \in LoopIds : TimerFire(l)
    \/ \E c \in CycleIds : PollFetchFail(c)
    \/ \E c \in CycleIds, snap \in MalformedSnapshots, raiseOn \in Ids \cup {NoId} :
           PollProcess(c, snap, raiseOn)

SpecMalformed == InitPoll /\ [][NextMalformed]_vars

\* The snapshots that hold nothing but messages with the given ids.
EchoSnapshots(ids) == SnapshotsOver(MessagesOver(ids, NoMentions), 1, 1)

\* sendText next to one loop that is never stopped; the snapshots hold the
\* messages that sendText calls have created.
NextSend ==
    \/ (loops = <<>> /\ StartOk)
    \/ \E l \in LoopIds : StartResume(l)
    \/ \E l \in LoopIds : TimerFire(l)
    \/ \E c \in CycleIds : PollFetchFail(c)
    \/ \E c \in CycleIds, snap \in EchoSnapshots(Sent) : PollProcess(c, snap, NoId)
    \/ SendNoConfig
    \/ SendCredFail
    \/ SendIssue
    \/ \E i \in 1..Len(sends), r \in Responses, m \in Ids \cup {NoId} : SendResolve(i, r, m)

SpecSend == Init /\ [][NextSend]_vars

\* The same loop fed every snapshot of OrderSnapshots.
NextOrder ==
    \/ (loops = <<>> /\ StartOk)
    \/ \E l \in LoopIds : StartResume(l)
    \/ \E l \in LoopIds : TimerFire(l)
    \/ \E c \in CycleIds : PollFetchFail(c)
    \/ \E c \in CycleIds, snap \in OrderSnapshots : PollProcess(c, snap, NoId)

SpecOrder == InitPoll /\ [][NextOrder]_vars

\* The same loop, never stopped, in behaviours without end: requests fail
\* and snapshots are malformed at will, the timer keeps firing while it is
\* armed, and again and again a request succeeds with the snapshot that
\* holds the new message.
NextLive ==
    \/ (loops = <<>> /\ StartOk)
    \/ \E l \in LoopIds : StartResume(l)
    \/ \E l \in LoopIds : TimerFireOn(l)
    \/ \E c \in CycleIds : PollFetchFail(c)
    \/ \E c \in CycleIds, snap \in RecoverySnapshots : PollProcess(c, snap, NoId)

SpecLive ==
    /\ InitPoll
    /\ [][NextLive]_vars
    /\ WF_vars(loops = <<>> /\ StartOk)
    /\ WF_vars(\E l \in LoopIds : TimerFireOn(l))
    /\ SF_vars(\E c \in CycleIds : PollProcess(c, NewMessageSnapshot, NoId))

\* The enabled gateway, started more than once and never stopped, while the
\* credential file changes; the snapshots hold no messages.
InitCred == Init /\ config = "enabledTrue"

NextCred ==
    \/ StartCredFail
    \/ StartOk
    \/ \E l \in LoopIds : StartResume(l)
    \/ \E l \in LoopIds : TimerFire(l)
    \/ \E c \in CycleIds : PollFetchFail(c)
    \/ \E c \in CycleIds, snap \in EmptySnapshots : PollProcess(c, snap, NoId)
    \/ \E v \in RotatedCreds : CredWrite(v)

SpecCred == InitCred /\ [][NextCred]_vars

TypeOK ==
    /\ config \in ConfigStates
    /\ credFile \in RotatedCreds
    /\ context \in 0..Len(loops)
    /\ stopCalls \in 0..MaxStops
    /\ ticks \in 0..MaxTicks
    /\ Len(startLog) <= MaxStarts
    /\ Len(cycles) <= MaxStarts + MaxTicks

\* ---- properties --------------------------------------------------------------

\* The events loop l has emitted for message id m.
EmittedBy(l, m) ==
    { i \in 1..Len(events) : events[i].loop = l /\ events[i].messageId = m }

Count(l, m) == Cardinality(EmittedBy(l, m))

\* In this step an invocation of poll ends, in one of the given ways.
EndsAs(how) == Len(cycles') < Len(cycles) /\ ended' \in how

\* C1: within one loop instance no message id is emitted more than once, and
\* a step never emits an id that is already in the loop's seen set, whatever
\* the snapshots hold and however the cycles interleave.
C1_EmittedAtMostOnce ==
    /\ [](\A l \in LoopIds : \A m \in Ids : Count(l, m) <= 1)
    /\ [][\A l \in LoopIds : \A m \in loops[l].seen : EmittedBy(l, m)' = EmittedBy(l, m)]_vars

\* The loop has emitted both ids, each once, and has met one of them again in
\* a later snapshot.
C1_Witness ==
    \E l \in LoopIds :
        /\ loops[l].reseen # {}
        /\ \A m \in Ids : Count(l, m) = 1

\* C2 as stated: a message id that a loop has met in more than one snapshot
\* has exactly one event.
C2_ExactlyOneEvent ==
    \A l \in LoopIds : \A m \in loops[l].reseen : Count(l, m) = 1

\* C2 as amended: a message id that a loop has met in more than one snapshot
\* has at most one event, and none if it failed the relevance test when the
\* loop first met it.
C2_AtMostOneEvent ==
    \A l \in LoopIds : \A m \in loops[l].reseen :
        /\ Count(l, m) <= 1
        /\ m \notin loops[l].firstRel => Count(l, m) = 0

\* An id that came back in a later snapshot has one event, and an id that was
\* not relevant when first met has none.
C2_Witness ==
    \E l \in LoopIds :
        /\ \E m \in loops[l].reseen : Count(l, m) = 1
        /\ \E n \in loops[l].seen \ loops[l].firstRel : Count(l, n) = 0

\* C3: every emitted event comes from a direct chat or carries a mention of
\* the bot, so a group message without that mention is never emitted; and the
\* event's isDM field says whether the chat is direct.
C3_RelevanceFilter ==
    \A i \in 1..Len(events) :
        LET e == events[i] IN
        /\ e.chatType = "direct" \/ (e.mentions.hasMentions /\ botUserId \in e.mentions.users)
        /\ e.isDM = (e.chatType = "direct")

\* A group message that mentions the bot was emitted with isDM false, and
\* another message was seen and, not being relevant, not emitted.
C3_Witness ==
    /\ \E i \in 1..Len(events) : events[i].chatType = "group" /\ ~events[i].isDM
    /\ \E l \in LoopIds : \E m \in loops[l].seen \ loops[l].firstRel : Count(l, m) = 0

\* C4: a cycle whose fetch fails changes no seen set, emits no event and
\* leaves the timers armed.
C4_FetchFailureIsolated ==
    [][EndsAs({"fetch"}) =>
          /\ \A l \in LoopIds : loops'[l].seen = loops[l].seen /\ loops'[l].timerArmed
          /\ events' = events]_vars

\* A fetch has just failed in a loop that had already seen and emitted a
\* message.
C4_Witness ==
    /\ ended = "fetch"
    /\ events # <<>>
    /\ \E l \in LoopIds : loops[l].seen # {} /\ loops[l].timerArmed

\* C5 as stated: a cycle that ends in the catch of poll, for a failed fetch or
\* for an exception during the walk, changes no seen set, emits no event and
\* leaves the timers as they were.
C5_FailedCycleLeavesNoTrace ==
    [][EndsAs({"fetch", "walk"}) =>
          /\ \A l \in LoopIds : /\ loops'[l].seen = loops[l].seen
                                /\ loops'[l].timerArmed = loops[l].timerArmed
          /\ events' = events]_vars

\* C6 as stated: a loop never has two invocations of poll between their fetch
\* and their completion.
C6_OneCycleAtATime ==
    \A l \in LoopIds : Cardinality(InFlight(l)) <= 1

\* C7 as stated: while the cycle that start runs is in flight, the loop's timer
\* is not armed and no cycle begun by the timer is in flight.
C7_InitialCycleBeforeTimer ==
    \A l \in LoopIds :
        InitialInFlight(l) =>
            /\ ~loops[l].timerArmed
            /\ \A c \in InFlight(l) : cycles[c].kind # "timer"

\* C8 as stated: no cycle is begun for a loop once stop has been called on it.
C8_NoCycleAfterStop ==
    \A c \in CycleIds : ~cycles[c].afterStop

\* What the program keeps of its loops: the records without the bookkeeping.
ProgramState(ls) ==
    [ l \in 1..Len(ls) |->
        [ token |-> ls[l].token, seen |-> ls[l].seen,
          timerArmed |-> ls[l].timerArmed, startPc |-> ls[l].startPc ] ]

\* C9: no interval handle is ever passed to clearInterval twice; a stop call
\* leaves no handle stored; and a stop call that finds no handle stored
\* cancels nothing, deletes nothing and changes nothing else.
C9_StopIdempotent ==
    /\ [](\A i, j \in 1..Len(clears) : clears[i] = clears[j] => i = j)
    /\ [][stopCalls' # stopCalls =>
            /\ context' = 0
            /\ context = 0 =>
                 /\ clears' = clears
                 /\ ProgramState(loops') = ProgramState(loops)
                 /\ cycles' = cycles
                 /\ events' = events]_vars

\* stop was called twice on a started gateway and cancelled its timer once.
C9_Witness ==
    /\ stopCalls = 2
    /\ Len(clears) = 1
    /\ context = 0
    /\ loops # <<>>
    /\ \A l \in LoopIds : ~loops[l].timerArmed /\ loops[l].startPc = "done"

\* C10: a start call made while the channel is enabled and the credential
\* cannot be loaded throws, and creates no loop, arms no timer, stores no
\* handle, issues no fetch and emits no event.
C10_NoPartialStart ==
    [][(Len(startLog') > Len(startLog) /\ config = "enabledTrue" /\ ~CredLoads(credFile)) =>
          /\ startLog'[Len(startLog')] = "threw"
          /\ loops' = loops
          /\ context' = context
          /\ cycles' = cycles
          /\ events' = events]_vars

\* start has thrown, and nothing runs.
C10_Witness ==
    /\ \E i \in 1..Len(startLog) : startLog[i] = "threw"
    /\ loops = <<>>
    /\ cycles = <<>>
    /\ context = 0

\* C11: sendText never throws to its caller; a call that has returned has
\* returned ok or a failure, ok only after the create request was answered
\* with success; and a call made without configuration or without a loadable
\* credential returns a failure at once and issues no request.
C11_SendNeverRaises ==
    /\ [](\A i \in 1..Len(sends) :
            /\ sends[i].result # "raised"
            /\ sends[i].pc = "returned" => sends[i].result \in {"ok", "fail"}
            /\ sends[i].result = "ok" => sends[i].response = "ok" /\ sends[i].requests = 1)
    /\ [][(Len(sends') > Len(sends) /\ (config = "noconfig" \/ ~CredLoads(credFile))) =>
            /\ sends'[Len(sends')].pc = "returned"
            /\ sends'[Len(sends')].result = "fail"
            /\ sends'[Len(sends')].requests = 0
            /\ calls'.create = calls.create]_vars

\* A call has issued its request and returned ok.
C11_Witness ==
    \E i \in 1..Len(sends) :
        sends[i].pc = "returned" /\ sends[i].result = "ok" /\ calls.create = 1

\* C12: no step of a sendText call changes a loop's seen set, whatever polls
\* are in flight, so the loop treats the echo of a self-sent message like any
\* new message: once the id is seen, it has its event iff it was relevant.
C12_SendLeavesSeenAlone ==
    /\ [][sends' # sends => \A l \in LoopIds : loops'[l].seen = loops[l].seen]_vars
    /\ [](\A l \in LoopIds : \A m \in Sent \cap loops[l].seen :
            Count(l, m) = IF m \in loops[l].firstRel THEN 1 ELSE 0)

\* A message that sendText created came back in a snapshot and was emitted.
C12_Witness ==
    \E l \in LoopIds : \E m \in Sent : m \in loops[l].seen /\ Count(l, m) = 1

\* C13: a loop's token never changes, every snapshot request of the loop
\* carries it, whatever the credential file holds by then, and the file is
\* read by start calls only, once each.
C13_TokenFixedPerLoop ==
    /\ [](\A c \in CycleIds : cycles[c].token = loops[cycles[c].loop].token)
    /\ [][/\ \A l \in LoopIds : loops'[l].token = loops[l].token
          /\ calls'.load = calls.load + (IF Len(loops') > Len(loops) THEN 1 ELSE 0)
                                      + (IF Len(startLog') > Len(startLog) /\ Len(loops') = Len(loops)
                                         THEN 1 ELSE 0)]_vars

\* The second loop was started after the file had changed, and the timer of
\* the first loop has since begun a cycle, with the first loop's token.
C13_Witness ==
    \E c, d \in CycleIds :
        /\ c < d
        /\ cycles[c].kind = "initial" /\ cycles[c].loop = 2
        /\ cycles[d].kind = "timer" /\ cycles[d].loop = 1
        /\ cycles[d].token # cycles[c].token
        /\ cycles[d].token # credFile

\* The message ids of a snapshot in its own order: chat after chat, and
\* within a chat message after message.
RECURSIVE IdsInOrder(_)
IdsInOrder(chats) ==
    IF chats = <<>> THEN <<>>
    ELSE [i \in 1..Len(Head(chats).messages.list) |-> Head(chats).messages.list[i].id]
         \o IdsInOrder(Tail(chats))

\* Where id m comes first in the sequence of ids.
FirstPos(ids, m) == CHOOSE i \in 1..Len(ids) : ids[i] = m /\ \A j \in 1..(i - 1) : ids[j] # m

C15_RecoversAfterFailure ==
    (ended \in {"fetch", "walk"}) ~> (\E l \in LoopIds : Count(l, NewId) = 1)

\* A cycle has failed while the new message was still to come, the timer is
\* armed and no invocation of poll is under way.
C15_Witness ==
    /\ ended \in {"fetch", "walk"}
    /\ cycles = <<>>
    /\ \E l \in LoopIds : loops[l].timerArmed /\ NewId \notin loops[l].seen

\* The start calls that got as far as their initial poll.
Started == { i \in 1..Len(startLog) : startLog[i] = "started" }

\* C16: as many snapshot requests have been issued as invocations of poll
\* have begun, one by each start and one by each firing of the timer; no
\* sendText call issues more than one create request, and as many create
\* requests have been issued as calls got that far; and the step in which a
\* request fails issues no request.
C16_NoRetries ==
    /\ [](/\ calls.fetch = Cardinality(Started) + ticks
          /\ \A i \in 1..Len(sends) : sends[i].requests <= 1
          /\ calls.create = Cardinality({ i \in 1..Len(sends) : sends[i].requests = 1 }))
    /\ [][(\/ EndsAs({"fetch"})
           \/ \E i \in 1..Len(sends) : sends[i].pc = "awaitCreate" /\ sends'[i].result = "fail")
          => calls' = calls /\ Len(cycles') <= Len(cycles)]_vars

\* A snapshot request and a create request have failed; two snapshot requests
\* were issued in all, by the start call and by one firing of the timer.
C16_Witness ==
    /\ ended = "fetch"
    /\ \E i \in 1..Len(sends) : sends[i].response = "failed"
    /\ ticks = 1
    /\ calls = [load |-> 2, fetch |-> 2, create |-> 1]

C18_NoTimerSurvivesStop ==
    (/\ context = 0
     /\ \A l \in LoopIds : loops[l].startPc = "done" /\ loops[l].stopRequested)
    => \A l \in LoopIds : ~loops[l].timerArmed

\* C19 as stated: every id of a seen set that passed the relevance test when
\* it was first met has had its event delivered.
C19_SeenRelevantWasEmitted ==
    \A l \in LoopIds : \A m \in loops[l].firstRel : Count(l, m) = 1

\* C20: an id that did not pass the relevance test when the loop first met it
\* has no event, and no later step emits one for it, in whatever chat and with
\* whatever mentions it comes back.
C20_RelevanceDecidedOnce ==
    /\ [](\A l \in LoopIds : \A m \in loops[l].seen \ loops[l].firstRel : Count(l, m) = 0)
    /\ [][\A l \in LoopIds : \A m \in loops[l].seen \ loops[l].firstRel :
              EmittedBy(l, m)' = {}]_vars

\* An id first met in a group chat without a mention of the bot came back in
\* a direct chat or with the mention, and has no event.
C20_Witness ==
    \E l \in LoopIds : \E m \in loops[l].late : Count(l, m) = 0

====
